---------------------------- MODULE Spec2Model ----------------------------
(***************************************************************************)
(* The calculator engine of calculator_frontend/src/calculatorEngine.js   *)
(* (CalculatorEngine.reduce and its helpers) and the one place that       *)
(* drives it, the useReducer of App.js.                                    *)
(*                                                                         *)
(* display is a sequence of one-character strings, so that the string     *)
(* operations of the engine (append, slice, includes, startsWith, length) *)
(* are the operations of the model.                                        *)
(*                                                                         *)
(* A JavaScript number is an IEEE-754 double.  The model names a finite   *)
(* double by the short decimal (-1)^neg * m * 10^e it is nearest to, and  *)
(* follows only the arithmetic whose double result is known exactly:      *)
(*   - Number(s) of a decimal literal s is the double nearest to s;       *)
(*   - String(x) of the double nearest to a decimal of at most 15         *)
(*     significant digits prints that decimal;                            *)
(*   - a + b, a - b, a * b, a / b are correctly rounded, so when a and b  *)
(*     are doubles that EQUAL their decimals (IsExactDouble) the result   *)
(*     is the double nearest to the exact decimal result;                 *)
(*   - x + 0, x * 1, x * 0, 0 / x, x / 1 are exact for every double x;    *)
(*   - a result beyond Number.MAX_VALUE is an infinity, a result below    *)
(*     the smallest subnormal is a zero, whatever the last bits of the    *)
(*     operands are.                                                      *)
(* Every other result (a rounded operand met again, a quotient with no    *)
(* finite decimal expansion, a subnormal) is not named: it is Unmodelled, *)
(* or UnmodelledNonZero when it cannot be a zero, its text is "?", and    *)
(* what is computed from it is not named either (a division by a number   *)
(* that may be a zero has the error UnmodelledError).  A step that would  *)
(* store one is outside the bounds of the model.                          *)
(*                                                                         *)
(* The operator tokens of the source are not ASCII; the model writes      *)
(*   "+" for '+',  "U+2212" for the minus sign,  "U+00D7" for the         *)
(*   multiplication sign and "U+00F7" for the division sign.              *)
(***************************************************************************)
EXTENDS Integers, Sequences, FiniteSets, TLC

VARIABLE calcState

vars == <<calcState>>

MAX_DISPLAY_LENGTH == 18

-----------------------------------------------------------------------------
(* Bounds of the model.                                                    *)

\* The largest decimal significand m of a number the model follows.
MaxMant == 15

\* The longest entry typed with all the keys of a specification (SpecLong
\* goes on to the engine's own cap with the key 1).
MaxEntry == 2

\* The largest decimal exponent, of the leading digit, of a number followed
\* under Spec.
MaxExp == 2

\* The same under SpecLong.
MaxExpLong == 33

\* The same under SpecOverflow: the exponent of Number.MAX_VALUE.
MaxExpOverflow == 308

-----------------------------------------------------------------------------
(* Characters and strings.                                                 *)

DigitSeq == <<"0", "1", "2", "3", "4", "5", "6", "7", "8", "9">>

DigitChars == {DigitSeq[i] : i \in 1..10}

DigitVal(c) == (CHOOSE i \in 1..10 : DigitSeq[i] = c) - 1

ErrorText == <<"E", "r", "r", "o", "r">>

\* String.prototype.includes for a one-character needle.
Includes(s, c) == \E i \in 1..Len(s) : s[i] = c

\* String.prototype.startsWith for a one-character prefix.
StartsWith(s, c) == Len(s) > 0 /\ s[1] = c

\* String.prototype.slice(1).
Slice1(s) == SubSeq(s, 2, Len(s))

RECURSIVE Zeros(_)
Zeros(n) == IF n <= 0 THEN <<>> ELSE <<"0">> \o Zeros(n - 1)

\* The decimal digits of a natural number.
RECURSIVE NatToChars(_)
NatToChars(n) ==
    IF n < 10 THEN <<DigitSeq[n + 1]>>
    ELSE NatToChars(n \div 10) \o <<DigitSeq[(n % 10) + 1]>>

RECURSIVE NumDigits(_)
NumDigits(n) == IF n < 10 THEN 1 ELSE 1 + NumDigits(n \div 10)

RECURSIVE Pow10(_)
Pow10(n) == IF n <= 0 THEN 1 ELSE 10 * Pow10(n - 1)

\* The longest prefix of s made of digits.
RECURSIVE DigitPrefix(_)
DigitPrefix(s) ==
    IF Len(s) > 0 /\ s[1] \in DigitChars
    THEN <<s[1]>> \o DigitPrefix(Tail(s))
    ELSE <<>>

RECURSIVE StripLeadingZeros(_)
StripLeadingZeros(s) ==
    IF Len(s) > 0 /\ s[1] = "0" THEN StripLeadingZeros(Tail(s)) ELSE s

RECURSIVE StripTrailingZeros(_)
StripTrailingZeros(s) ==
    IF Len(s) > 0 /\ s[Len(s)] = "0"
    THEN StripTrailingZeros(SubSeq(s, 1, Len(s) - 1))
    ELSE s

\* The natural number written by at most nine digits.
RECURSIVE CharsToNat(_)
CharsToNat(s) ==
    IF Len(s) = 0 THEN 0
    ELSE 10 * CharsToNat(SubSeq(s, 1, Len(s) - 1)) + DigitVal(s[Len(s)])

-----------------------------------------------------------------------------
(* Numbers.                                                                *)

\* null (the accumulator's "no pending operand").
Null == [k |-> "null", neg |-> FALSE, m |-> 0, e |-> 0]

NaN == [k |-> "nan", neg |-> FALSE, m |-> 0, e |-> 0]

Inf(neg) == [k |-> "inf", neg |-> neg, m |-> 0, e |-> 0]

Zero(neg) == [k |-> "fin", neg |-> neg, m |-> 0, e |-> 0]

\* A number the model does not name: any double at all, a zero as well.
Unmodelled == [k |-> "unmodelled", neg |-> FALSE, m |-> 0, e |-> 0]

\* A number the model does not name, of which it knows that it is no zero.
UnmodelledNonZero == [k |-> "unmodelled", neg |-> FALSE, m |-> 1, e |-> 0]

\* m * 10^e with the trailing zeros of m moved into e.
RECURSIVE Norm(_, _)
Norm(m, e) ==
    IF m = 0 THEN [m |-> 0, e |-> 0]
    ELSE IF m % 10 = 0 THEN Norm(m \div 10, e + 1)
    ELSE [m |-> m, e |-> e]

Fin(neg, m, e) ==
    LET n == Norm(m, e) IN [k |-> "fin", neg |-> neg, m |-> n.m, e |-> n.e]

\* The decimal exponent of the leading digit of a non-zero finite number.
LeadExp(v) == v.e + NumDigits(v.m) - 1

IsZero(v) == v.k = "fin" /\ v.m = 0

\* Number.isFinite.
IsFinite(v) == v.k = "fin"

\* floor(2^53 / 5^e) for 10 <= e; 2^53 / 5^10 = 922337203.68...
RECURSIVE MaxExactMant(_)
MaxExactMant(e) == IF e <= 10 THEN 922337203 ELSE MaxExactMant(e - 1) \div 5

RECURSIVE Pow5(_)
Pow5(n) == IF n <= 0 THEN 1 ELSE 5 * Pow5(n - 1)

\* The double named by v equals the decimal m * 10^e: for e >= 0 when
\* m * 5^e < 2^53 (the value is m * 5^e * 2^e), for e < 0 when 5^-e divides m
\* (the value is (m / 5^-e) / 2^-e).  m is below 2^31 here.
IsExactDouble(v) ==
    /\ v.k = "fin"
    /\ \/ v.m = 0
       \/ v.e >= 0 /\ v.e <= 22 /\ v.m <= MaxExactMant(v.e)
       \/ v.e < 0 /\ v.e >= -12 /\ v.m % Pow5(-v.e) = 0

\* The first nine significant digits of m, as a number.
Lead9(m) ==
    IF NumDigits(m) > 9 THEN m \div Pow10(NumDigits(m) - 9)
    ELSE m * Pow10(9 - NumDigits(m))

\* The double of a result whose decimal is (-1)^neg * m * 10^e (m < 2^31).
\* `exact' says that the decimal is the exact result, which the operation
\* rounds; otherwise the decimal has the leading exponent of the exact result
\* and is not above it, or is within a few units of the 16th digit of it.
\* Number.MAX_VALUE is 1.7976931348623157e308 and the smallest subnormal is
\* 4.94e-324: beyond the first the result is an infinity, and below half the
\* second, 2.4703282292e-324, a zero.  In between the decimal names its double
\* when it is exact and short (m <= MaxMant) and the range is normal (leading
\* exponent >= -307); the other results are not named, and only next to
\* 2.47e-324 may one of them be a zero.
RoundToDouble(neg, m, e, exact) ==
    LET n == Norm(m, e)
        A == n.e + NumDigits(n.m) - 1
    IN  IF m = 0 THEN Zero(neg)
        ELSE IF A > 308 \/ (A = 308 /\ Lead9(n.m) > 179769313) THEN Inf(neg)
        ELSE IF A < -324 \/ (exact /\ A = -324 /\ Lead9(n.m) < 247032822)
             THEN Zero(neg)
        ELSE IF A = -324 /\ (~exact \/ Lead9(n.m) = 247032822)
             THEN Unmodelled
        ELSE IF A < -307 \/ ~exact \/ n.m > MaxMant THEN UnmodelledNonZero
        ELSE [k |-> "fin", neg |-> neg, m |-> n.m, e |-> n.e]


\* The one element of a singleton: Only({F(x) : x \in {v}}) is F(v) with v
\* evaluated once.
Only(S) == CHOOSE x \in S : TRUE

\* The text that stands for the string of a number the model does not name.
\* A text that contains '?' is a string the model does not name either, and
\* so is its number.
UnmodelledText == <<"?">>

\* The double written by the digits `all' (no leading zero) times 10^scale.
\* Of more than nine significant digits the first nine are read: they give
\* the leading exponent and a decimal not above the one written.
DecimalToNumber(neg, all, scale) ==
    LET sig == StripTrailingZeros(all)
    IN  IF Len(sig) = 0 THEN Zero(neg)
        ELSE IF Len(sig) > 9
             THEN RoundToDouble(neg, CharsToNat(SubSeq(sig, 1, 9)),
                                scale + (Len(all) - 9), FALSE)
        ELSE RoundToDouble(neg, CharsToNat(sig),
                           scale + (Len(all) - Len(sig)), TRUE)

\* The exponent part: rest is empty, or 'e' or 'E', an optional sign and
\* digits.  An exponent of five digits or more is beyond every double.
ExponentToNumber(neg, ip, fp, rest) ==
    LET hasExp == Len(rest) > 0 /\ rest[1] \in {"e", "E"}
        expSigned == Len(rest) > 1 /\ rest[2] \in {"-", "+"}
        expNeg == Len(rest) > 1 /\ rest[2] = "-"
        ed == SubSeq(rest, IF expSigned THEN 3 ELSE 2, Len(rest))
        edz == StripLeadingZeros(ed)
        expAbs == IF Len(edz) > 4 THEN 99999 ELSE CharsToNat(edz)
        exp == IF ~hasExp THEN 0 ELSE IF expNeg THEN -expAbs ELSE expAbs
        wellFormed ==
            /\ Len(ip) + Len(fp) > 0
            /\ IF hasExp THEN Len(ed) > 0 /\ DigitPrefix(ed) = ed
                         ELSE Len(rest) = 0
    IN  IF ~wellFormed THEN NaN
        ELSE Only({DecimalToNumber(neg, all, exp - Len(fp)) :
                       all \in {StripLeadingZeros(ip \o fp)}})

\* The fraction part: rest is what follows the integer digits ip.
FractionToNumber(neg, ip, rest) ==
    IF StartsWith(rest, ".")
    THEN Only({ExponentToNumber(neg, ip, fp,
                                SubSeq(rest, Len(fp) + 2, Len(rest))) :
                   fp \in {DigitPrefix(Tail(rest))}})
    ELSE ExponentToNumber(neg, ip, <<>>, rest)

UnsignedToNumber(neg, body) ==
    IF body = <<"I", "n", "f", "i", "n", "i", "t", "y">> THEN Inf(neg)
    ELSE Only({FractionToNumber(neg, ip,
                                SubSeq(body, Len(ip) + 1, Len(body))) :
                   ip \in {DigitPrefix(body)}})

\* Number(s) for a string s (ECMAScript StringToNumber): an optional sign, then
\* digits with an optional fraction, or a fraction alone, then an optional
\* exponent; "Infinity"; the empty string is 0; anything else is NaN.  (The
\* characters of a display are digits, '-', '+', '.', 'e' and the letters of
\* "Error", so the hexadecimal, octal and binary forms and white space never
\* arise.)
ToNumber(s) ==
    IF Includes(s, "?") THEN Unmodelled
    ELSE IF Len(s) = 0 THEN Zero(FALSE)
    ELSE IF s[1] \in {"-", "+"} THEN UnsignedToNumber(s[1] = "-", Tail(s))
    ELSE UnsignedToNumber(FALSE, s)

\* String(num) for a finite num (ECMAScript Number::toString, radix 10): with
\* k digits and the decimal point after the n-th, plain digits when
\* k <= n <= 21, a decimal point inside when 0 < n <= 21, "0.000ddd" when
\* -6 < n <= 0, and exponential notation otherwise.
NumberToString(v) ==
    LET digits == NatToChars(v.m)
        k == Len(digits)
        n == v.e + k
        sign == IF v.neg THEN <<"-">> ELSE <<>>
        x == n - 1
        expPart == <<"e">> \o (IF x >= 0 THEN <<"+">> \o NatToChars(x)
                                        ELSE <<"-">> \o NatToChars(-x))
    IN  IF v.k = "unmodelled" THEN UnmodelledText
        ELSE IF v.k = "nan" THEN <<"N", "a", "N">>
        ELSE IF v.k = "inf"
             THEN sign \o <<"I", "n", "f", "i", "n", "i", "t", "y">>
        ELSE IF v.m = 0 THEN <<"0">>
        ELSE IF k <= n /\ n <= 21 THEN sign \o digits \o Zeros(n - k)
        ELSE IF 0 < n /\ n <= 21
             THEN sign \o SubSeq(digits, 1, n) \o <<".">>
                       \o SubSeq(digits, n + 1, k)
        ELSE IF -6 < n /\ n <= 0
             THEN sign \o <<"0", ".">> \o Zeros(-n) \o digits
        ELSE IF k = 1 THEN sign \o digits \o expPart
        ELSE sign \o <<digits[1]>> \o <<".">> \o SubSeq(digits, 2, k)
                  \o expPart

\* num.toExponential(fractionDigits) for a finite num: one digit, the point,
\* fractionDigits digits, 'e', the sign of the exponent and the exponent.  A
\* significand longer than fractionDigits + 1 digits is rounded on the binary
\* expansion of the double: not followed.
toExponential(v, fractionDigits) ==
    LET digits == NatToChars(v.m)
        k == Len(digits)
        sign == IF v.neg /\ v.m # 0 THEN <<"-">> ELSE <<>>
        x == IF v.m = 0 THEN 0 ELSE LeadExp(v)
        expPart == <<"e">> \o (IF x >= 0 THEN <<"+">> \o NatToChars(x)
                                        ELSE <<"-">> \o NatToChars(-x))
        frac == Tail(digits) \o Zeros(fractionDigits + 1 - k)
    IN  IF v.k # "fin" \/ k > fractionDigits + 1 THEN UnmodelledText
        ELSE sign \o <<digits[1]>>
                  \o (IF fractionDigits > 0 THEN <<".">> \o frac ELSE <<>>)
                  \o expPart

\* _formatNumber without the test of Number.isFinite.
FormatNumberUnchecked(num) ==
    IF num.k = "unmodelled" THEN UnmodelledText
    ELSE IF Len(NumberToString(num)) <= MAX_DISPLAY_LENGTH
         THEN NumberToString(num)
    ELSE toExponential(num, 10)

_formatNumber(num) ==
    IF num.k = "unmodelled" THEN UnmodelledText
    ELSE IF ~IsFinite(num) THEN ErrorText
    ELSE LET s == NumberToString(num)
             exp == toExponential(num, 10)
         IN  IF Len(s) <= MAX_DISPLAY_LENGTH THEN s
             ELSE IF Len(exp) <= MAX_DISPLAY_LENGTH THEN exp
             ELSE toExponential(num, 6)

_parseDisplay(display) ==
    Only({IF n.k = "nan" THEN Zero(FALSE) ELSE n : n \in {ToNumber(display)}})

-----------------------------------------------------------------------------
(* IEEE-754 arithmetic on the numbers the model follows.                   *)

RECURSIVE GCD(_, _)
GCD(a, b) == IF b = 0 THEN a ELSE GCD(b, a % b)

\* The exponent of the prime p in n > 0.
RECURSIVE Multiplicity(_, _)
Multiplicity(n, p) == IF n % p = 0 THEN 1 + Multiplicity(n \div p, p) ELSE 0

RECURSIVE Pow2(_)
Pow2(n) == IF n <= 0 THEN 1 ELSE 2 * Pow2(n - 1)

Negate(v) == IF v.k \in {"fin", "inf"} THEN [v EXCEPT !.neg = ~v.neg] ELSE v

IsUnit(v) == v.k = "fin" /\ v.m = 1 /\ v.e = 0

\* a + b.
NumAdd(a, b) ==
    LET e == IF a.e < b.e THEN a.e ELSE b.e
        wide == \/ NumDigits(a.m) + (a.e - e) > 9
                \/ NumDigits(b.m) + (b.e - e) > 9
        ma == a.m * Pow10(a.e - e)
        mb == b.m * Pow10(b.e - e)
        sa == IF a.neg THEN -ma ELSE ma
        sb == IF b.neg THEN -mb ELSE mb
        sum == sa + sb
        exact == IsExactDouble(a) /\ IsExactDouble(b)
    IN  IF a.k = "unmodelled" \/ b.k = "unmodelled" THEN Unmodelled
        ELSE IF a.k = "nan" \/ b.k = "nan" THEN NaN
        ELSE IF a.k = "inf" /\ b.k = "inf"
             THEN IF a.neg = b.neg THEN a ELSE NaN
        ELSE IF a.k = "inf" THEN a
        ELSE IF b.k = "inf" THEN b
        ELSE IF a.m = 0 /\ b.m = 0 THEN Zero(a.neg /\ b.neg)
        ELSE IF a.m = 0 THEN b
        ELSE IF b.m = 0 THEN a
        ELSE IF wide THEN Unmodelled
        ELSE IF sum = 0 THEN Zero(FALSE)
        ELSE RoundToDouble(sum < 0, IF sum < 0 THEN -sum ELSE sum, e, exact)

\* a - b.
NumSub(a, b) == NumAdd(a, Negate(b))

\* a * b.
NumMul(a, b) ==
    LET neg == a.neg # b.neg
        exact == \/ IsExactDouble(a) /\ IsExactDouble(b)
                 \/ IsUnit(a) \/ IsUnit(b)
    IN  IF a.k = "unmodelled" \/ b.k = "unmodelled" THEN Unmodelled
        ELSE IF a.k = "nan" \/ b.k = "nan" THEN NaN
        ELSE IF a.k = "inf" \/ b.k = "inf"
             THEN IF IsZero(a) \/ IsZero(b) THEN NaN ELSE Inf(neg)
        ELSE IF a.m = 0 \/ b.m = 0 THEN Zero(neg)
        ELSE IF a.m > 46340 \/ b.m > 46340 THEN Unmodelled
        ELSE RoundToDouble(neg, a.m * b.m, a.e + b.e, exact)

\* a / b.
NumDiv(a, b) ==
    LET neg == a.neg # b.neg
        exact == (IsExactDouble(a) /\ IsExactDouble(b)) \/ IsUnit(b)
        g == GCD(a.m, b.m)
        num == a.m \div g
        den == b.m \div g
        i == Multiplicity(den, 2)
        j == Multiplicity(den, 5)
        terminating == den = Pow2(i) * Pow5(j)
        t == IF i > j THEN i ELSE j
        \* den has no factor 10 (b.m has no trailing zero): it is 2^i or 5^j
        m == num * Pow5(t - j) * Pow2(t - i)
        \* a lower bound of the quotient with the quotient's leading exponent
        s == NumDigits(b.m)
        low == (a.m * Pow10(s)) \div b.m
    IN  IF a.k = "unmodelled" \/ b.k = "unmodelled" THEN Unmodelled
        ELSE IF a.k = "nan" \/ b.k = "nan" THEN NaN
        ELSE IF a.k = "inf" THEN IF b.k = "inf" THEN NaN ELSE Inf(neg)
        ELSE IF b.k = "inf" THEN Zero(neg)
        ELSE IF b.m = 0 THEN IF a.m = 0 THEN NaN ELSE Inf(neg)
        ELSE IF a.m = 0 THEN Zero(neg)
        ELSE IF a.m > 99999 \/ b.m > 9999 THEN Unmodelled
        ELSE IF terminating /\ t <= 8 /\ num <= 5000
             THEN RoundToDouble(neg, m, a.e - b.e - t, exact)
        ELSE RoundToDouble(neg, low, a.e - b.e - s, FALSE)

\* _compute whose division looks for a zero dividend, not a zero divisor.
ComputeZeroDividend(a, b, operator) ==
    CASE operator = "+" -> [value |-> NumAdd(a, b), error |-> "null"]
      [] operator = "U+2212" -> [value |-> NumSub(a, b), error |-> "null"]
      [] operator = "U+00D7" -> [value |-> NumMul(a, b), error |-> "null"]
      [] operator = "U+00F7" ->
            IF IsZero(a)
            THEN [value |-> Zero(FALSE), error |-> "DIV_BY_ZERO"]
            ELSE [value |-> Unmodelled, error |-> "null"]
      [] OTHER -> [value |-> b, error |-> "null"]

\* The error of a division by a number that the model does not name and that
\* may be a zero: null or "DIV_BY_ZERO", the model does not say which.
UnmodelledError == "unmodelled"

_compute(a, b, operator) ==
    CASE operator = "+" -> [value |-> NumAdd(a, b), error |-> "null"]
      [] operator = "U+2212" -> [value |-> NumSub(a, b), error |-> "null"]
      [] operator = "U+00D7" -> [value |-> NumMul(a, b), error |-> "null"]
      [] operator = "U+00F7" ->
            IF b = Unmodelled
            THEN [value |-> Unmodelled, error |-> UnmodelledError]
            ELSE IF IsZero(b)
            THEN [value |-> Zero(FALSE), error |-> "DIV_BY_ZERO"]
            ELSE [value |-> NumDiv(a, b), error |-> "null"]
      [] OTHER -> [value |-> b, error |-> "null"]

-----------------------------------------------------------------------------
(* JavaScript values of the action payloads, and the string-typed fields.  *)
(* The fields operator and error hold the string "null" for null.          *)

Undefined == [k |-> "undefined", v |-> ""]

JsNull == [k |-> "null", v |-> ""]

Str(v) == [k |-> "string", v |-> v]

\* String(x) for a payload.
String(x) == IF x.k = "string" THEN x.v ELSE x.k

\* The truth value of a string-typed field: null and "" are falsy.
Truthy(x) == x # "null" /\ x # ""

OperatorTokens == {"+", "U+2212", "U+00D7", "U+00F7"}

Fields == {"display", "accumulator", "operator", "awaitingNext", "error"}

-----------------------------------------------------------------------------
(* CalculatorEngine.                                                       *)

initialState ==
    [display |-> <<"0">>,
     accumulator |-> Null,
     operator |-> "null",
     awaitingNext |-> FALSE,
     error |-> "null"]

\* A value of the field display that is no string (undefined, null, a
\* number): a function on {0}, which no sequence of characters is.
NotAString(type) == [i \in {0} |-> type]

\* typeof x === "string".
TypeofString(x) == 0 \notin DOMAIN x

\* state is a function from (some of) the field names; undefined and null
\* are the function of no field, like {}.
_sanitizeState(state) ==
    LET base == initialState
    IN  [f \in Fields |->
            IF f = "display"
            THEN IF /\ "display" \in DOMAIN state
                    /\ TypeofString(state.display)
                    /\ Len(state.display) > 0
                 THEN state.display
                 ELSE <<"0">>
            ELSE IF f \in DOMAIN state THEN state[f] ELSE base[f]]

\* _inputDigit that appends while the display is not longer than the cap.
InputDigitOffByOne(state, digit) ==
    IF digit = Undefined \/ digit = JsNull THEN state
    ELSE IF String(digit) \notin DigitChars THEN state
    ELSE IF state.awaitingNext
         THEN [state EXCEPT !.display = <<String(digit)>>,
                            !.awaitingNext = FALSE]
    ELSE IF state.display = <<"0">>
         THEN [state EXCEPT !.display = <<String(digit)>>]
    ELSE IF Len(state.display) > MAX_DISPLAY_LENGTH THEN state
    ELSE [state EXCEPT !.display = state.display \o <<String(digit)>>]

\* _inputDigit that appends to the display "0" as to any other.
InputDigitKeepingLeadingZero(state, digit) ==
    IF digit = Undefined \/ digit = JsNull THEN state
    ELSE IF String(digit) \notin DigitChars THEN state
    ELSE IF state.awaitingNext
         THEN [state EXCEPT !.display = <<String(digit)>>,
                            !.awaitingNext = FALSE]
    ELSE IF Len(state.display) >= MAX_DISPLAY_LENGTH THEN state
    ELSE [state EXCEPT !.display = state.display \o <<String(digit)>>]

_inputDigit(state, digit) ==
    LET d == String(digit)
    IN  IF digit = Undefined \/ digit = JsNull THEN state
        ELSE IF d \notin DigitChars THEN state
        ELSE IF state.awaitingNext
             THEN [state EXCEPT !.display = <<d>>, !.awaitingNext = FALSE]
        ELSE IF state.display = <<"0">>
             THEN [state EXCEPT !.display = <<d>>]
        ELSE IF Len(state.display) >= MAX_DISPLAY_LENGTH THEN state
        ELSE [state EXCEPT !.display = state.display \o <<d>>]

\* _inputDot that does not look for a dot in the display.
InputDotUnchecked(state) ==
    IF state.awaitingNext
    THEN [state EXCEPT !.display = <<"0", ".">>, !.awaitingNext = FALSE]
    ELSE IF Len(state.display) >= MAX_DISPLAY_LENGTH THEN state
    ELSE [state EXCEPT !.display = state.display \o <<".">>]

\* _inputDot that appends whatever the length of the display.
InputDotUncapped(state) ==
    IF state.awaitingNext
    THEN [state EXCEPT !.display = <<"0", ".">>, !.awaitingNext = FALSE]
    ELSE IF Includes(state.display, ".") THEN state
    ELSE [state EXCEPT !.display = state.display \o <<".">>]

_inputDot(state) ==
    IF state.awaitingNext
    THEN [state EXCEPT !.display = <<"0", ".">>, !.awaitingNext = FALSE]
    ELSE IF Includes(state.display, ".") THEN state
    ELSE IF Len(state.display) >= MAX_DISPLAY_LENGTH THEN state
    ELSE [state EXCEPT !.display = state.display \o <<".">>]

\* _toggleSign that prepends '-' whatever the length of the display.
ToggleSignUncapped(state) ==
    IF state.display = <<"0">> THEN state
    ELSE IF StartsWith(state.display, "-")
         THEN [state EXCEPT !.display = Slice1(state.display)]
    ELSE [state EXCEPT !.display = <<"-">> \o state.display]

\* _toggleSign that, right after an operator, changes the sign of the left
\* operand.
ToggleSignNegatingOperand(state) ==
    IF state.awaitingNext /\ state.accumulator # Null
    THEN [state EXCEPT !.accumulator = Negate(state.accumulator)]
    ELSE IF state.display = <<"0">> THEN state
    ELSE IF StartsWith(state.display, "-")
         THEN [state EXCEPT !.display = Slice1(state.display)]
    ELSE IF Len(state.display) + 1 > MAX_DISPLAY_LENGTH THEN state
    ELSE [state EXCEPT !.display = <<"-">> \o state.display]

_toggleSign(state) ==
    IF state.display = <<"0">> THEN state
    ELSE IF StartsWith(state.display, "-")
         THEN [state EXCEPT !.display = Slice1(state.display)]
    ELSE IF Len(state.display) + 1 > MAX_DISPLAY_LENGTH THEN state
    ELSE [state EXCEPT !.display = <<"-">> \o state.display]

\* _percent that also makes the next digit start a new entry.
PercentStartingEntry(state) ==
    Only({[state EXCEPT !.display = _formatNumber(pct),
                        !.awaitingNext = TRUE] :
             pct \in {NumDiv(current, Fin(FALSE, 100, 0)) :
                         current \in {_parseDisplay(state.display)}}})

\* 100 is a double that equals its decimal.
_percent(state) ==
    Only({[state EXCEPT !.display = _formatNumber(pct)] :
             pct \in {NumDiv(current, Fin(FALSE, 100, 0)) :
                         current \in {_parseDisplay(state.display)}}})

\* An accumulator the model does not name: null or any double.
UnmodelledAccumulator == [k |-> "unmodelled", neg |-> FALSE, m |-> 2, e |-> 0]

\* A state of which the model names no field.  It stands for the state with
\* the error set and for the state with the value, which differ in every
\* field, and for every state the code reaches from either of them.
UnmodelledState ==
    [display |-> UnmodelledText,
     accumulator |-> UnmodelledAccumulator,
     operator |-> "unmodelled",
     awaitingNext |-> "unmodelled",
     error |-> UnmodelledError]

\* The chaining branch that, on an error, clears what is pending as _equals
\* does.
ChainClearingOnError(state, op, computed) ==
    IF computed.error = UnmodelledError
    THEN [UnmodelledState EXCEPT !.accumulator = Unmodelled]
    ELSE IF Truthy(computed.error)
    THEN [state EXCEPT !.error = computed.error,
                       !.display = ErrorText,
                       !.accumulator = Null,
                       !.operator = "null",
                       !.awaitingNext = FALSE]
    ELSE [state EXCEPT !.accumulator = computed.value,
                       !.operator = op,
                       !.display = _formatNumber(computed.value),
                       !.awaitingNext = TRUE]

\* The branch of _inputOperator that computes the intermediate result.  When
\* the model does not name the error, the accumulator is a double all the
\* same: the one kept on the error or the value computed.
ChainOperator(state, op, computed) ==
    IF computed.error = UnmodelledError
    THEN [UnmodelledState EXCEPT !.accumulator = Unmodelled]
    ELSE IF Truthy(computed.error)
    THEN [state EXCEPT !.error = computed.error, !.display = ErrorText]
    ELSE [state EXCEPT !.accumulator = computed.value,
                       !.operator = op,
                       !.display = _formatNumber(computed.value),
                       !.awaitingNext = TRUE]

\* _inputOperator that takes any payload for an operator.
InputOperatorUnvalidated(state, operator) ==
    IF state.awaitingNext /\ state.accumulator # Null
    THEN [state EXCEPT !.operator = String(operator)]
    ELSE [state EXCEPT !.accumulator = _parseDisplay(state.display),
                       !.operator = String(operator),
                       !.awaitingNext = TRUE]

\* _inputOperator that computes the intermediate result with the operator
\* just pressed.
InputOperatorApplyingNew(state, operator) ==
    LET op == String(operator)
    IN  IF op \notin OperatorTokens THEN state
        ELSE IF state.awaitingNext /\ state.accumulator # Null
             THEN [state EXCEPT !.operator = op]
        ELSE Only({
               IF state.accumulator # Null /\ Truthy(state.operator)
               THEN Only({ChainOperator(state, op, computed) :
                            computed \in {_compute(state.accumulator, current,
                                                   op)}})
               ELSE [state EXCEPT !.accumulator = current,
                                  !.operator = op,
                                  !.awaitingNext = TRUE] :
               current \in {_parseDisplay(state.display)}})

\* _inputOperator without the branch of the repeated operator: an operator
\* pressed again computes with the display as the operand.
InputOperatorAlwaysChaining(state, operator) ==
    LET op == String(operator)
    IN  IF op \notin OperatorTokens THEN state
        ELSE Only({
               IF state.accumulator # Null /\ Truthy(state.operator)
               THEN Only({ChainOperator(state, op, computed) :
                            computed \in {_compute(state.accumulator, current,
                                                   state.operator)}})
               ELSE [state EXCEPT !.accumulator = current,
                                  !.operator = op,
                                  !.awaitingNext = TRUE] :
               current \in {_parseDisplay(state.display)}})

\* _inputOperator whose first press leaves the entry open.
InputOperatorKeepingEntry(state, operator) ==
    LET op == String(operator)
    IN  IF op \notin OperatorTokens THEN state
        ELSE IF state.awaitingNext /\ state.accumulator # Null
             THEN [state EXCEPT !.operator = op]
        ELSE Only({
               IF state.accumulator # Null /\ Truthy(state.operator)
               THEN Only({ChainOperator(state, op, computed) :
                            computed \in {_compute(state.accumulator, current,
                                                   state.operator)}})
               ELSE [state EXCEPT !.accumulator = current,
                                  !.operator = op] :
               current \in {_parseDisplay(state.display)}})

_inputOperator(state, operator) ==
    LET op == String(operator)
    IN  IF op \notin OperatorTokens THEN state
        ELSE IF state.awaitingNext /\ state.accumulator # Null
             THEN [state EXCEPT !.operator = op]
        ELSE Only({
               IF state.accumulator # Null /\ Truthy(state.operator)
               THEN Only({ChainOperator(state, op, computed) :
                            computed \in {_compute(state.accumulator, current,
                                                   state.operator)}})
               ELSE [state EXCEPT !.accumulator = current,
                                  !.operator = op,
                                  !.awaitingNext = TRUE] :
               current \in {_parseDisplay(state.display)}})

\* _equals that, on an error, keeps what is pending, as _inputOperator does.
FinalizeKeepingPending(state, computed) ==
    IF computed.error = UnmodelledError
    THEN [UnmodelledState EXCEPT !.accumulator = Null, !.operator = "null"]
    ELSE IF Truthy(computed.error)
    THEN [state EXCEPT !.error = computed.error, !.display = ErrorText]
    ELSE [state EXCEPT !.display = _formatNumber(computed.value),
                       !.accumulator = Null,
                       !.operator = "null",
                       !.awaitingNext = TRUE]

\* _equals that leaves the operator pending after a result.
FinalizeKeepingOperator(state, computed) ==
    IF computed.error = UnmodelledError
    THEN [UnmodelledState EXCEPT !.accumulator = Null, !.operator = "null"]
    ELSE IF Truthy(computed.error)
    THEN [state EXCEPT !.error = computed.error,
                       !.display = ErrorText,
                       !.accumulator = Null,
                       !.operator = "null",
                       !.awaitingNext = FALSE]
    ELSE [state EXCEPT !.display = _formatNumber(computed.value),
                       !.accumulator = Null,
                       !.awaitingNext = TRUE]

\* The result of _equals once the pending operation is computed.  Whatever
\* the error, accumulator and operator are cleared.
Finalize(state, computed) ==
    IF computed.error = UnmodelledError
    THEN [UnmodelledState EXCEPT !.accumulator = Null, !.operator = "null"]
    ELSE IF Truthy(computed.error)
    THEN [state EXCEPT !.error = computed.error,
                       !.display = ErrorText,
                       !.accumulator = Null,
                       !.operator = "null",
                       !.awaitingNext = FALSE]
    ELSE [state EXCEPT !.display = _formatNumber(computed.value),
                       !.accumulator = Null,
                       !.operator = "null",
                       !.awaitingNext = TRUE]

\* _equals that computes with its operands exchanged.
EqualsOperandsSwapped(state) ==
    IF state.accumulator = Null \/ ~Truthy(state.operator) THEN state
    ELSE Only({Finalize(state, computed) :
                 computed \in {_compute(current, state.accumulator,
                                        state.operator) :
                                 current \in {_parseDisplay(state.display)}}})

_equals(state) ==
    IF state.accumulator = Null \/ ~Truthy(state.operator) THEN state
    ELSE Only({Finalize(state, computed) :
                 computed \in {_compute(state.accumulator, current,
                                        state.operator) :
                                 current \in {_parseDisplay(state.display)}}})

\* What reduce gives in a state whose error the model does not name.  CLEAR
\* gives initialState() whatever the error is.  Any other action is stopped
\* by the gate when the error is set and taken when it is not, so the model
\* names no field of the outcome.
SwitchUnmodelled(action) ==
    IF action.type = "CLEAR" THEN initialState ELSE UnmodelledState

\* reduce without the gate of the sticky error.
SwitchUngated(safe, action) ==
    IF safe.error = UnmodelledError THEN SwitchUnmodelled(action) ELSE
    CASE action.type = "DIGIT" -> _inputDigit(safe, action.payload)
      [] action.type = "DOT" -> _inputDot(safe)
      [] action.type = "OP" -> _inputOperator(safe, action.payload)
      [] action.type = "EQUALS" -> _equals(safe)
      [] action.type = "CLEAR" -> initialState
      [] action.type = "TOGGLE_SIGN" -> _toggleSign(safe)
      [] action.type = "PERCENT" -> _percent(safe)
      [] OTHER -> safe

\* reduce whose gate of the sticky error stops CLEAR as well.
SwitchGatingClear(safe, action) ==
    IF safe.error = UnmodelledError THEN SwitchUnmodelled(action)
    ELSE IF Truthy(safe.error) THEN safe
    ELSE SwitchUngated(safe, action)

\* reduce's switch on the sanitized state.
Switch(safe, action) ==
    IF safe.error = UnmodelledError THEN SwitchUnmodelled(action)
    ELSE IF Truthy(safe.error) /\ action.type # "CLEAR" THEN safe
    ELSE CASE action.type = "DIGIT" -> _inputDigit(safe, action.payload)
           [] action.type = "DOT" -> _inputDot(safe)
           [] action.type = "OP" -> _inputOperator(safe, action.payload)
           [] action.type = "EQUALS" -> _equals(safe)
           [] action.type = "CLEAR" -> initialState
           [] action.type = "TOGGLE_SIGN" -> _toggleSign(safe)
           [] action.type = "PERCENT" -> _percent(safe)
           [] OTHER -> safe

\* The TypeError that reading a property of undefined or of null raises.
TypeError == [raised |-> "TypeError"]

\* An action that is undefined or null.
AbsentActions == {Undefined, JsNull}

\* action.type is read in the gate when safe.error is set and in the switch
\* otherwise.
reduce(state, action) ==
    IF action \in AbsentActions THEN TypeError
    ELSE Only({Switch(safe, action) : safe \in {_sanitizeState(state)}})

-----------------------------------------------------------------------------
(* App: const [calcState, dispatch] = useReducer(reduce, undefined,        *)
(* initialState), and the actions that are dispatched.                     *)

Init == calcState = initialState

\* What the model follows of a state: numbers it names, of a leading
\* exponent within cap.
InCap(v, cap) ==
    v.k = "fin" /\ v.m # 0 => -cap <= LeadExp(v) /\ LeadExp(v) <= cap

Followed(state, cap) ==
    /\ state.error # UnmodelledError
    /\ state.accumulator.k # "unmodelled"
    /\ ~Includes(state.display, "?")
    /\ InCap(state.accumulator, cap)
    /\ \A n \in {ToNumber(state.display)} : InCap(n, cap)

\* The entry typed is at most `entry' characters long, a leading '-' apart (a
\* key that the engine rejects types nothing).
Typed(before, after, entry) ==
    \/ after.display = before.display
    \/ Len(after.display) <= entry + 1 /\ StartsWith(after.display, "-")
    \/ Len(after.display) <= entry

\* The keys pressed under Spec.
Digits == {"0", "1", "2", "5"}

\* Payloads that are no digit and no operator token.
BadDigitPayloads == {Undefined, JsNull, Str(""), Str("a"), Str("10")}

BadOperatorPayloads == {Undefined, JsNull, Str("-"), Str("*"), Str("/")}

UnknownTypes == {"undefined", "digit", "BACKSPACE"}

\* dispatch(action) of useReducer: calcState becomes reduce(calcState, action).
Digit(D, entry, cap) ==
    \E d \in D :
        /\ calcState' = reduce(calcState, [type |-> "DIGIT", payload |-> Str(d)])
        /\ Typed(calcState, calcState', entry)
        /\ Followed(calcState', cap)

Dot(entry, cap) ==
    /\ calcState' = reduce(calcState, [type |-> "DOT", payload |-> Undefined])
    /\ Typed(calcState, calcState', entry)
    /\ Followed(calcState', cap)

Operator(O, cap) ==
    \E o \in O :
        /\ calcState' = reduce(calcState, [type |-> "OP", payload |-> Str(o)])
        /\ Followed(calcState', cap)

Equals(cap) ==
    /\ calcState' = reduce(calcState, [type |-> "EQUALS", payload |-> Undefined])
    /\ Followed(calcState', cap)

Clear ==
    calcState' = reduce(calcState, [type |-> "CLEAR", payload |-> Undefined])

ToggleSign(cap) ==
    /\ calcState' =
           reduce(calcState, [type |-> "TOGGLE_SIGN", payload |-> Undefined])
    /\ Followed(calcState', cap)

Percent(cap) ==
    /\ calcState' = reduce(calcState, [type |-> "PERCENT", payload |-> Undefined])
    /\ Followed(calcState', cap)

MalformedDigit ==
    \E p \in BadDigitPayloads :
        calcState' = reduce(calcState, [type |-> "DIGIT", payload |-> p])

MalformedOperator ==
    \E p \in BadOperatorPayloads :
        calcState' = reduce(calcState, [type |-> "OP", payload |-> p])

UnknownAction ==
    \E t \in UnknownTypes :
        calcState' = reduce(calcState, [type |-> t, payload |-> Undefined])

Next ==
    \/ Digit(Digits, MaxEntry, MaxExp)
    \/ Dot(MaxEntry, MaxExp)
    \/ Operator(OperatorTokens, MaxExp)
    \/ Equals(MaxExp)
    \/ Clear
    \/ ToggleSign(MaxExp)
    \/ Percent(MaxExp)
    \/ MalformedDigit
    \/ MalformedOperator
    \/ UnknownAction

Spec == Init /\ [][Next]_vars

-----------------------------------------------------------------------------
(* Long entries and large values.  Short entries over the keys 0 and 1 are *)
(* multiplied and divided up to 10^MaxExpLong; while no operation is       *)
(* pending the key 1 and the dot are also typed up to the display's cap.   *)

DigitsLong == {"0", "1"}

OperatorsLong == {"U+00D7", "U+00F7"}

LongDigit ==
    /\ calcState.accumulator = Null
    /\ Digit({"1"}, MAX_DISPLAY_LENGTH, MaxExpLong)

LongDot ==
    /\ calcState.accumulator = Null
    /\ Dot(MAX_DISPLAY_LENGTH, MaxExpLong)

NextLong ==
    \/ Digit(DigitsLong, MaxEntry, MaxExpLong)
    \/ Dot(MaxEntry, MaxExpLong)
    \/ LongDigit
    \/ LongDot
    \/ Operator(OperatorsLong, MaxExpLong)
    \/ Equals(MaxExpLong)
    \/ Clear
    \/ ToggleSign(MaxExpLong)
    \/ Percent(MaxExpLong)

SpecLong == Init /\ [][NextLong]_vars

-----------------------------------------------------------------------------
(* Overflow.  No product or quotient of numbers that the model follows     *)
(* from initialState exceeds the largest double, so the run starts either  *)
(* from initialState or from the state the program is in after the keys    *)
(*   1 ÷ 1 % % % % % % % % % % % % % % % 7 =                               *)
(* The fifteen PERCENT make the display "1.0000000000e-30", the key 7 is   *)
(* appended to it, and EQUALS divides 1 by 1e-307.  (The operands of the   *)
(* PERCENT after the first are rounded, so the model does not name the     *)
(* states on the way.)                                                     *)

LargeState ==
    [initialState EXCEPT
        !.display = <<"1", ".", "0", "0", "0", "0", "0", "0", "0", "0", "0",
                      "0", "e", "+", "3", "0", "7">>,
        !.awaitingNext = TRUE]

InitOverflow == calcState \in {initialState, LargeState}

DigitsOverflow == {"0", "2"}

OperatorsOverflow == {"+", "U+00D7"}

NextOverflow ==
    \/ Digit(DigitsOverflow, MaxEntry, MaxExpOverflow)
    \/ Dot(MaxEntry, MaxExpOverflow)
    \/ Operator(OperatorsOverflow, MaxExpOverflow)
    \/ Equals(MaxExpOverflow)
    \/ Clear
    \/ ToggleSign(MaxExpOverflow)
    \/ Percent(MaxExpOverflow)

SpecOverflow == InitOverflow /\ [][NextOverflow]_vars

-----------------------------------------------------------------------------
(* The actions reduce is asked about: those the App dispatches (buttons    *)
(* and keys), and malformed ones.                                          *)

AllDigits == {"0", "1", "2", "3", "4", "5", "6", "7", "8", "9"}

NoPayload(types) == {[type |-> t, payload |-> Undefined] : t \in types}

DigitActions == {[type |-> "DIGIT", payload |-> Str(d)] : d \in AllDigits}

OperatorActions == {[type |-> "OP", payload |-> Str(o)] : o \in OperatorTokens}

WellFormedActions ==
    DigitActions \cup OperatorActions
        \cup NoPayload({"DOT", "EQUALS", "CLEAR", "TOGGLE_SIGN", "PERCENT"})

MalformedActions ==
    {[type |-> "DIGIT", payload |-> p] : p \in BadDigitPayloads}
        \cup {[type |-> "OP", payload |-> p] : p \in BadOperatorPayloads}
        \cup NoPayload(UnknownTypes)

ClearAction == [type |-> "CLEAR", payload |-> Undefined]

-----------------------------------------------------------------------------
\* C1: while error is set, reduce with any action other than CLEAR returns the
\* state it was given, field for field; so along every run a state with error
\* set is followed only by itself, display "Error" included, or by the state
\* that CLEAR gives.
ErrorFrozen ==
    Truthy(calcState.error) =>
        \A a \in (WellFormedActions \cup MalformedActions) \ {ClearAction} :
            reduce(calcState, a) = calcState

ErrorKept ==
    Truthy(calcState.error) /\ calcState' # reduce(calcState, ClearAction) =>
        /\ calcState' = calcState
        /\ calcState'.display = ErrorText

C1_StickyError == []ErrorFrozen /\ [][ErrorKept]_vars

\* A state with error set, that a digit key leaves as it is.
C1_Witness ==
    /\ calcState.error = "DIV_BY_ZERO"
    /\ calcState.display = ErrorText
    /\ reduce(calcState, [type |-> "DIGIT", payload |-> Str("1")]) = calcState

\* C2: in every reachable state, error states included, reduce with CLEAR
\* gives initialState(): display "0", no accumulator, no operator, awaitingNext
\* false, no error.
C2_ClearResets ==
    /\ reduce(calcState, ClearAction) = initialState
    /\ reduce(calcState, ClearAction) =
           [display |-> <<"0">>, accumulator |-> Null, operator |-> "null",
            awaitingNext |-> FALSE, error |-> "null"]

\* A state with error set and an operation still pending.
C2_Witness ==
    /\ Truthy(calcState.error)
    /\ calcState.accumulator # Null
    /\ calcState.operator # "null"
    /\ calcState.display # <<"0">>

\* The characters of s after an optional leading '-'.
Unsigned(s) == IF StartsWith(s, "-") THEN Tail(s) ELSE s

Count(s, c) == Cardinality({i \in 1..Len(s) : s[i] = c})

\* An optional leading '-', digits, and at most one '.'.
PlainLiteral(s) ==
    /\ \E i \in 1..Len(Unsigned(s)) : Unsigned(s)[i] \in DigitChars
    /\ \A i \in 1..Len(Unsigned(s)) : Unsigned(s)[i] \in DigitChars \cup {"."}
    /\ Count(s, ".") <= 1

\* An optional leading '-'; then a digit or "Error"; then digits, at most one
\* '.' and at most one exponent mark 'e', which a sign and a digit follow (no
\* 'e' after "Error").
ExponentLiteral(s) ==
    LET body == Unsigned(s)
        tail == IF Len(body) >= 5 /\ SubSeq(body, 1, 5) = ErrorText
                THEN SubSeq(body, 6, Len(body))
                ELSE body
    IN  /\ Len(body) > 0
        /\ tail = body => body[1] \in DigitChars
        /\ tail # body => ~Includes(tail, "e")
        /\ \A i \in 1..Len(tail) :
               tail[i] \in DigitChars \cup {".", "e", "+", "-"}
        /\ Count(tail, ".") <= 1
        /\ Count(tail, "e") <= 1
        /\ \A i \in 1..Len(tail) :
               tail[i] = "e" =>
                   /\ i + 2 <= Len(tail)
                   /\ tail[i + 1] \in {"+", "-"}
                   /\ tail[i + 2] \in DigitChars
        /\ \A i \in 1..Len(tail) :
               tail[i] \in {"+", "-"} => i > 1 /\ tail[i - 1] = "e"

\* C3 as stated: in every reachable state display is "Error" or an optional
\* leading '-', digits and at most one '.'.
C3_Original ==
    calcState.display = ErrorText \/ PlainLiteral(calcState.display)

\* C3, amended: in every reachable state display is an optional leading '-',
\* then "Error" or a numeral as String(num) and toExponential print it
\* (digits, at most one '.', at most one exponent part 'e', sign, digits), and
\* then what was typed after it: digits, and one '.' if there was none.
C3_DisplayShape == ExponentLiteral(calcState.display)

\* A display that toExponential printed.
C3_Witness ==
    /\ Includes(calcState.display, "e")
    /\ Includes(calcState.display, ".")
    /\ ExponentLiteral(calcState.display)

DotAction == [type |-> "DOT", payload |-> Undefined]

ToggleSignAction == [type |-> "TOGGLE_SIGN", payload |-> Undefined]

\* C4: in every reachable state display has 1 to MAX_DISPLAY_LENGTH (18)
\* characters, after every key as well; a DIGIT or a DOT that would append to
\* a display of 18 characters, and a TOGGLE_SIGN that would put a '-' before
\* one, leave the state as it is.
C4_DisplayLength ==
    /\ Len(calcState.display) \in 1..MAX_DISPLAY_LENGTH
    /\ \A a \in DigitActions \cup {DotAction, ToggleSignAction} :
           Len(reduce(calcState, a).display) \in 1..MAX_DISPLAY_LENGTH
    /\ Len(calcState.display) = MAX_DISPLAY_LENGTH /\ ~calcState.awaitingNext =>
           \A a \in DigitActions \cup {DotAction} :
               reduce(calcState, a) = calcState
    /\ /\ Len(calcState.display) = MAX_DISPLAY_LENGTH
       /\ ~StartsWith(calcState.display, "-")
       => reduce(calcState, ToggleSignAction) = calcState

\* An entry typed up to the cap, that keys no longer change.
C4_Witness ==
    /\ Len(calcState.display) = MAX_DISPLAY_LENGTH
    /\ ~calcState.awaitingNext
    /\ ~StartsWith(calcState.display, "-")
    /\ ~Includes(calcState.display, "e")
    /\ reduce(calcState, [type |-> "DIGIT", payload |-> Str("1")]) = calcState
    /\ reduce(calcState, ToggleSignAction) = calcState

\* C5: in every reachable state operator is absent exactly when accumulator
\* is absent, and an operator that is present is one of the four tokens.
C5_OperatorWithAccumulator ==
    /\ calcState.operator = "null" <=> calcState.accumulator = Null
    /\ calcState.operator # "null" => calcState.operator \in OperatorTokens

\* An operation pending on the accumulator 2, its right operand awaited.
C5_Witness ==
    /\ calcState.accumulator = Fin(FALSE, 2, 0)
    /\ calcState.operator \in OperatorTokens
    /\ calcState.awaitingNext

\* C6: in every reachable state, reduce with a malformed or unknown action (an
\* unknown type, a DIGIT whose payload is missing or is not one character 0-9,
\* an OP whose payload is not one of the four tokens) returns the state it was
\* given, field for field.
C6_MalformedIgnored ==
    \A a \in MalformedActions :
        /\ reduce(calcState, a) = calcState
        /\ \A f \in Fields : reduce(calcState, a)[f] = calcState[f]

\* A state with an entry under way and an operation pending, that the ASCII
\* '-' as an operator leaves as it is.
C6_Witness ==
    /\ calcState.accumulator # Null
    /\ ~calcState.awaitingNext
    /\ calcState.display # <<"0">>
    /\ reduce(calcState, [type |-> "OP", payload |-> Str("-")]) = calcState

\* C7: error is absent or "DIV_BY_ZERO"; a state with error set shows "Error";
\* and from a state without error, reduce sets error only for an OP or an
\* EQUALS met with the operator ÷ pending and a display whose value is zero.
ErrorOnlyByZeroDivisor ==
    /\ calcState.error \in {"null", "DIV_BY_ZERO"}
    /\ Truthy(calcState.error) => calcState.display = ErrorText
    /\ ~Truthy(calcState.error) =>
           \A a \in WellFormedActions \cup MalformedActions :
               Truthy(reduce(calcState, a).error) =>
                   /\ a.type \in {"OP", "EQUALS"}
                   /\ a.type = "OP" => ~calcState.awaitingNext
                   /\ calcState.accumulator # Null
                   /\ calcState.operator = "U+00F7"
                   /\ IsZero(_parseDisplay(calcState.display))
                   /\ reduce(calcState, a).error = "DIV_BY_ZERO"
                   /\ reduce(calcState, a).display = ErrorText

ErrorSetStep ==
    ~Truthy(calcState.error) /\ Truthy(calcState'.error) =>
        /\ calcState.operator = "U+00F7"
        /\ IsZero(_parseDisplay(calcState.display))
        /\ calcState'.error = "DIV_BY_ZERO"
        /\ calcState'.display = ErrorText

C7_ErrorOnlyDivByZero == []ErrorOnlyByZeroDivisor /\ [][ErrorSetStep]_vars

\* The error set by an OP that chains: 5 ÷ 0 +.
C7_Witness ==
    /\ calcState.error = "DIV_BY_ZERO"
    /\ calcState.operator = "U+00F7"
    /\ calcState.accumulator = Fin(FALSE, 5, 0)
    /\ calcState.display = ErrorText

\* The value that EQUALS, or an OP that chains, computes in calcState.
PendingValue ==
    _compute(calcState.accumulator, _parseDisplay(calcState.display),
             calcState.operator)

\* The actions that compute PendingValue.
ComputingActions ==
    IF Truthy(calcState.error) \/ calcState.accumulator = Null
        \/ ~Truthy(calcState.operator)
    THEN {}
    ELSE {[type |-> "EQUALS", payload |-> Undefined]}
             \cup (IF calcState.awaitingNext THEN {} ELSE OperatorActions)

\* The states that a computation of a value that is not finite gives in
\* calcState.
AfterOverflow ==
    {reduce(calcState, a) :
        a \in {c \in ComputingActions :
                  /\ ~Truthy(PendingValue.error)
                  /\ PendingValue.value.k \in {"inf", "nan"}}}

\* A computed value that is not finite shows "Error" and leaves error absent.
OverflowShowsError ==
    \A after \in AfterOverflow :
        /\ after.display = ErrorText
        /\ after.error = "null"
        /\ after.awaitingNext

PercentAction == [type |-> "PERCENT", payload |-> Undefined]

\* C8 as stated: a computed value that is not finite (OP chaining or EQUALS)
\* shows "Error" with error absent, and after the next DIGIT or the next OP
\* the display no longer shows "Error".
C8_Original ==
    /\ OverflowShowsError
    /\ \A after \in AfterOverflow :
           \A a \in DigitActions \cup OperatorActions :
               reduce(after, a).display # ErrorText

\* C8, amended: a computed value that is not finite (OP chaining or EQUALS)
\* shows "Error" with error absent and awaitingNext true.  No action is gated
\* then: the next DIGIT or DOT starts a fresh entry over "Error", CLEAR
\* resets, PERCENT shows "0" and TOGGLE_SIGN shows "-Error"; the next OP is
\* taken (operator and accumulator are set) but leaves "Error" in the display.
C8_DisplayOnlyError ==
    /\ OverflowShowsError
    /\ \A after \in AfterOverflow :
           /\ \A a \in DigitActions :
                  reduce(after, a) =
                      [after EXCEPT !.display = <<String(a.payload)>>,
                                    !.awaitingNext = FALSE]
           /\ reduce(after, DotAction) =
                  [after EXCEPT !.display = <<"0", ".">>,
                                !.awaitingNext = FALSE]
           /\ \A a \in OperatorActions :
                  /\ reduce(after, a).display = ErrorText
                  /\ reduce(after, a).error = "null"
                  /\ reduce(after, a).operator = String(a.payload)
                  /\ reduce(after, a).accumulator # Null
                  /\ after.accumulator = Null =>
                         reduce(after, a).accumulator = Zero(FALSE)
           /\ reduce(after, ClearAction) = initialState
           /\ reduce(after, ToggleSignAction).display = <<"-">> \o ErrorText
           /\ reduce(after, PercentAction).display = <<"0">>

\* "Error" shown by an OP that chained into an infinite accumulator.
C8_Witness ==
    /\ calcState.display = ErrorText
    /\ ~Truthy(calcState.error)
    /\ calcState.accumulator = Inf(FALSE)
    /\ calcState.operator = "+"

EqualsAction == [type |-> "EQUALS", payload |-> Undefined]

\* An operation is pending and no error is set.
Pending ==
    /\ ~Truthy(calcState.error)
    /\ calcState.accumulator # Null
    /\ Truthy(calcState.operator)

\* The integer that a number is, for the integers up to 40000 (their sums,
\* differences and products are below 2^31).
IsInteger(v) ==
    v.k = "fin" /\ v.e >= 0 /\ v.e < 5 /\ v.m * Pow10(v.e) <= 40000

IntegerOf(v) == IF v.neg THEN -(v.m * Pow10(v.e)) ELSE v.m * Pow10(v.e)

\* The decimal digits of an integer, with its sign.
IntegerText(i) == IF i < 0 THEN <<"-">> \o NatToChars(-i) ELSE NatToChars(i)

\* a + b, a - b and a * b on the integers.
IntegerResult(a, b, operator) ==
    CASE operator = "+" -> a + b
      [] operator = "U+2212" -> a - b
      [] operator = "U+00D7" -> a * b

\* The state that EQUALS gives in calcState.
AfterEquals == reduce(calcState, EqualsAction)

\* C9: EQUALS with nothing pending leaves the state as it is.  EQUALS with an
\* operation pending and no division by zero shows the formatted value of
\* operator(accumulator, value of the display), clears accumulator and
\* operator and sets awaitingNext; on integer operands of +, - and * that
\* value is the integer sum, difference or product, so 1 + 2 = shows "3".
\* After it a DIGIT starts a fresh entry and an OP takes the displayed result
\* as its left operand.
C9_Equals ==
    \A after \in {AfterEquals} :
        /\ calcState.accumulator = Null \/ ~Truthy(calcState.operator) =>
               after = calcState
        /\ Pending =>
               \A computed \in {PendingValue} :
                   /\ ~Truthy(computed.error) =>
                          /\ after =
                                 [calcState EXCEPT
                                     !.display = _formatNumber(computed.value),
                                     !.accumulator = Null,
                                     !.operator = "null",
                                     !.awaitingNext = TRUE]
                          /\ \A a \in DigitActions :
                                 reduce(after, a) =
                                     [after EXCEPT
                                         !.display = <<String(a.payload)>>,
                                         !.awaitingNext = FALSE]
                          /\ \A a \in OperatorActions :
                                 reduce(after, a) =
                                     [after EXCEPT
                                         !.accumulator =
                                             _parseDisplay(after.display),
                                         !.operator = String(a.payload)]
                   /\ /\ calcState.operator \in {"+", "U+2212", "U+00D7"}
                      /\ IsInteger(calcState.accumulator)
                      /\ IsInteger(_parseDisplay(calcState.display))
                      /\ after.display # UnmodelledText
                      => after.display =
                             IntegerText(IntegerResult(
                                 IntegerOf(calcState.accumulator),
                                 IntegerOf(_parseDisplay(calcState.display)),
                                 calcState.operator))
        /\ calcState = [display |-> <<"2">>, accumulator |-> Fin(FALSE, 1, 0),
                        operator |-> "+", awaitingNext |-> FALSE,
                        error |-> "null"]
           => after = [display |-> <<"3">>, accumulator |-> Null,
                       operator |-> "null", awaitingNext |-> TRUE,
                       error |-> "null"]

\* The result of 1 + 2 = (3 is not among the keys of Spec).
C9_Witness ==
    calcState = [display |-> <<"3">>, accumulator |-> Null,
                 operator |-> "null", awaitingNext |-> TRUE, error |-> "null"]

\* The state of the sticky error after EQUALS.
ErrorState ==
    [display |-> ErrorText, accumulator |-> Null, operator |-> "null",
     awaitingNext |-> FALSE, error |-> "DIV_BY_ZERO"]

\* C10: EQUALS with ÷ pending and a display whose value is zero gives display
\* "Error", error "DIV_BY_ZERO", no accumulator, no operator and awaitingNext
\* false; in that state a DIGIT changes nothing and CLEAR gives
\* initialState().
C10_DivisionByZero ==
    /\ /\ Pending
       /\ calcState.operator = "U+00F7"
       /\ IsZero(_parseDisplay(calcState.display))
       => AfterEquals = ErrorState
    /\ calcState = ErrorState =>
           /\ \A a \in DigitActions : reduce(calcState, a) = calcState
           /\ reduce(calcState, ClearAction) = initialState
    /\ calcState = [display |-> <<"0">>, accumulator |-> Fin(FALSE, 5, 0),
                    operator |-> "U+00F7", awaitingNext |-> FALSE,
                    error |-> "null"]
       => AfterEquals = ErrorState

\* The state after 5 ÷ 0 =.
C10_Witness == calcState = ErrorState

-----------------------------------------------------------------------------
(* Sequences of actions dispatched from a state.                           *)

\* An action on which reduce raises ends the sequence: no later action is
\* reduced, and the state is the one before the raise.
RECURSIVE Dispatch(_, _)
Dispatch(state, actions) ==
    IF actions = <<>> THEN state
    ELSE Only({IF next = TypeError THEN state
               ELSE Dispatch(next, Tail(actions)) :
                 next \in {reduce(state, Head(actions))}})

DigitKey(d) == [type |-> "DIGIT", payload |-> Str(d)]

OperatorKey(o) == [type |-> "OP", payload |-> Str(o)]

\* An operation is pending and an operand has been typed after the operator.
Chaining == Pending /\ ~calcState.awaitingNext

\* The state that an OP gives when it computes `computed' in calcState.
Chained(a, computed) ==
    [calcState EXCEPT !.accumulator = computed.value,
                      !.operator = String(a.payload),
                      !.display = _formatNumber(computed.value),
                      !.awaitingNext = TRUE]

\* 2 + 3 × 4 = shows "20".
LeftToRightExample ==
    Dispatch(initialState,
             <<DigitKey("2"), OperatorKey("+"), DigitKey("3"),
               OperatorKey("U+00D7"), DigitKey("4"), EqualsAction>>).display
        = <<"2", "0">>

\* C11 as stated: every OP pressed with an operation pending and an operand
\* typed sets accumulator to the value of the old operator on (accumulator,
\* value of the display), operator to the one pressed, display to the
\* formatted value and awaitingNext to true.
C11_Original ==
    Chaining =>
        \A computed \in {PendingValue} :
            \A a \in OperatorActions :
                reduce(calcState, a) = Chained(a, computed)

\* C11, amended: an OP pressed with an operation pending, an operand typed and
\* no division by zero sets accumulator to the value of the OLD operator on
\* (accumulator, value of the display), operator to the one pressed, display
\* to the formatted value and awaitingNext to true; on integer operands of +,
\* - and * the value is the integer result, and a following operand and
\* EQUALS compute with the operator pressed on that value, so that
\* 2 + 3 × 4 = shows "20".
C11_Chaining ==
    /\ Chaining =>
           \A computed \in {PendingValue} :
               ~Truthy(computed.error) =>
                   \A a \in OperatorActions :
                       /\ reduce(calcState, a) = Chained(a, computed)
                       /\ \A d \in DigitActions :
                              Dispatch(calcState, <<a, d, EqualsAction>>).display
                                  \in {ErrorText,
                                       _formatNumber(
                                           _compute(computed.value,
                                                    _parseDisplay(
                                                        <<String(d.payload)>>),
                                                    String(a.payload)).value)}
                       /\ /\ calcState.operator \in {"+", "U+2212", "U+00D7"}
                          /\ IsInteger(calcState.accumulator)
                          /\ IsInteger(_parseDisplay(calcState.display))
                          /\ IsInteger(computed.value)
                          => /\ reduce(calcState, a).display =
                                    IntegerText(IntegerResult(
                                        IntegerOf(calcState.accumulator),
                                        IntegerOf(_parseDisplay(
                                                      calcState.display)),
                                        calcState.operator))
                             /\ String(a.payload) # "U+00F7" =>
                                    Dispatch(calcState,
                                             <<a, DigitKey("2"), EqualsAction>>)
                                        .display \in
                                        {UnmodelledText,
                                         IntegerText(IntegerResult(
                                             IntegerOf(computed.value), 2,
                                             String(a.payload)))}
    /\ LeftToRightExample

\* 10 ÷ 10 × has been pressed: the accumulator is 10 ÷ 10, and × is pending.
C11_Witness ==
    /\ calcState.accumulator = Fin(FALSE, 1, 0)
    /\ calcState.operator = "U+00D7"
    /\ calcState.display = <<"1">>
    /\ calcState.awaitingNext

\* An operator has just been pressed: a left operand is held and no operand
\* has been typed since.
OperatorJustPressed == calcState.awaitingNext /\ calcState.accumulator # Null

\* 5 + × 3 = shows "15".
RepeatedOperatorExample ==
    Dispatch(initialState,
             <<DigitKey("5"), OperatorKey("+"), OperatorKey("U+00D7"),
               DigitKey("3"), EqualsAction>>).display
        = <<"1", "5">>

\* C12: an OP pressed while awaitingNext is true and an accumulator exists
\* replaces the pending operator and nothing else (accumulator, display,
\* awaitingNext and error are as before), so an operand and EQUALS after it
\* compute with the operator pressed last on the accumulator: 5 + × 3 = shows
\* "15".
C12_RepeatedOperator ==
    /\ OperatorJustPressed =>
           \A a \in OperatorActions :
               /\ reduce(calcState, a) =
                      [calcState EXCEPT !.operator = String(a.payload)]
               /\ \A d \in DigitActions :
                      \A computed \in {_compute(calcState.accumulator,
                                                _parseDisplay(
                                                    <<String(d.payload)>>),
                                                String(a.payload))} :
                          Dispatch(calcState, <<a, d, EqualsAction>>).display =
                              IF Truthy(computed.error) THEN ErrorText
                              ELSE _formatNumber(computed.value)
    /\ RepeatedOperatorExample

\* 2 + has been pressed, and × pressed next replaces the +.
C12_Witness ==
    /\ OperatorJustPressed
    /\ calcState.accumulator = Fin(FALSE, 2, 0)
    /\ calcState.operator = "+"
    /\ reduce(calcState, OperatorKey("U+00D7")).operator = "U+00D7"
    /\ Dispatch(calcState,
                <<OperatorKey("U+00D7"), DigitKey("2"), EqualsAction>>).display
           = <<"4">>

\* TOGGLE_SIGN on "0" changes nothing; 7 TOGGLE_SIGN shows "-7", and
\* TOGGLE_SIGN again "7".
ToggleSignExample ==
    /\ Dispatch(initialState, <<ToggleSignAction>>) = initialState
    /\ Dispatch(initialState, <<DigitKey("7"), ToggleSignAction>>).display
           = <<"-", "7">>
    /\ Dispatch(initialState,
                <<DigitKey("7"), ToggleSignAction, ToggleSignAction>>)
           = Dispatch(initialState, <<DigitKey("7")>>)

\* C13: without error, TOGGLE_SIGN changes nothing when display is "0";
\* otherwise it strips a leading '-', or prepends '-' unless the display would
\* then exceed 18 characters (nothing changes then), and the value of a
\* numeric display changes sign.  In every state no field but display
\* changes, and a second TOGGLE_SIGN gives the original state back.
C13_ToggleSign ==
    /\ \A toggled \in {reduce(calcState, ToggleSignAction)} :
           /\ toggled = [calcState EXCEPT !.display = toggled.display]
           /\ reduce(toggled, ToggleSignAction) = calcState
           /\ ~Truthy(calcState.error) =>
                  /\ toggled.display =
                         IF calcState.display = <<"0">> THEN calcState.display
                         ELSE IF calcState.display[1] = "-"
                              THEN Tail(calcState.display)
                         ELSE IF Len(calcState.display) + 1 > 18
                              THEN calcState.display
                         ELSE <<"-">> \o calcState.display
                  /\ \A n \in {ToNumber(calcState.display)} :
                         toggled # calcState /\ n.k = "fin" =>
                             /\ _parseDisplay(toggled.display).k = "fin"
                             /\ _parseDisplay(toggled.display).neg = ~n.neg
                             /\ _parseDisplay(toggled.display).m = n.m
                             /\ _parseDisplay(toggled.display).e = n.e
    /\ ToggleSignExample

\* A negated entry of 18 characters: TOGGLE_SIGN has prepended '-' to 17.
C13_Witness ==
    /\ ~Truthy(calcState.error)
    /\ Len(calcState.display) = MAX_DISPLAY_LENGTH
    /\ calcState.display[1] = "-"
    /\ ~calcState.awaitingNext

\* The decimal text of i / 100 for an integer i.
HundredthsText(i) ==
    LET n == IF i < 0 THEN -i ELSE i
        r == n % 100
        fraction == IF r = 0 THEN <<>>
                    ELSE IF r % 10 = 0 THEN <<".", DigitSeq[(r \div 10) + 1]>>
                    ELSE <<".", DigitSeq[(r \div 10) + 1], DigitSeq[(r % 10) + 1]>>
    IN  (IF i < 0 THEN <<"-">> ELSE <<>>) \o NatToChars(n \div 100) \o fraction

\* 5 0 PERCENT shows "0.5".
PercentExample ==
    Dispatch(initialState, <<DigitKey("5"), DigitKey("0"), PercentAction>>)
        = [initialState EXCEPT !.display = <<"0", ".", "5">>]

\* C14: without error, PERCENT replaces display with the formatted value of
\* (value of the display) / 100 and leaves accumulator, operator, awaitingNext
\* and error as they are; for a display that is an integer the new display is
\* the decimal with the point moved two places, so 5 0 PERCENT shows "0.5".
C14_Percent ==
    /\ ~Truthy(calcState.error) =>
           \A after \in {reduce(calcState, PercentAction)} :
               /\ after = [calcState EXCEPT !.display = after.display]
               /\ after.display =
                      _formatNumber(NumDiv(_parseDisplay(calcState.display),
                                           Fin(FALSE, 100, 0)))
               /\ \A n \in {_parseDisplay(calcState.display)} :
                      IsInteger(n) /\ after.display # UnmodelledText =>
                          after.display = HundredthsText(IntegerOf(n))
    /\ PercentExample

\* 20 PERCENT while 2 + is pending: "0.2" is shown and the entry goes on.
C14_Witness ==
    /\ calcState.display = <<"0", ".", "2">>
    /\ ~calcState.awaitingNext
    /\ calcState.accumulator = Fin(FALSE, 2, 0)
    /\ calcState.operator = "+"

-----------------------------------------------------------------------------
(* reduce called with whatever state its caller supplies: no state at all, *)
(* some of the fields only, a display that is no string or is empty.  The  *)
(* states returned are supplied to the next call.                          *)

\* The fields F of a state.
Restrict(state, F) == [f \in F |-> state[f]]

\* Complete states: the initial one, one with an operation pending (1 ÷),
\* one with the error set by an OP that chained (1 ÷ 0 +).
CompleteStates ==
    {initialState,
     [display |-> <<"1">>, accumulator |-> Fin(FALSE, 1, 0),
      operator |-> "U+00F7", awaitingNext |-> TRUE, error |-> "null"],
     [display |-> ErrorText, accumulator |-> Fin(FALSE, 1, 0),
      operator |-> "U+00F7", awaitingNext |-> FALSE,
      error |-> "DIV_BY_ZERO"]}

\* Values of display that _sanitizeState replaces.
BadDisplays ==
    {<<>>, NotAString("undefined"), NotAString("null"), NotAString("number")}

\* undefined and null (no field), {} and every partial state, with the display
\* of the complete state or a bad one.
SuppliedStates ==
    {Restrict(state, F) : state \in CompleteStates, F \in SUBSET Fields}
        \cup {Restrict([state EXCEPT !.display = d], F) :
                 state \in CompleteStates, d \in BadDisplays,
                 F \in {G \in SUBSET Fields : "display" \in G}}

InitSupplied == calcState \in SuppliedStates

\* The actions of the calls: the keys 0 and 1, + and ÷, the other buttons,
\* and malformed actions.
SuppliedActions ==
    {DigitKey("0"), DigitKey("1"), OperatorKey("+"), OperatorKey("U+00F7")}
        \cup NoPayload({"DOT", "EQUALS", "CLEAR", "TOGGLE_SIGN", "PERCENT"})
        \cup MalformedActions

\* reduce(state, action) is called on the state supplied, and returns.
Call ==
    \E a \in SuppliedActions :
        /\ calcState' = reduce(calcState, a)
        /\ Typed(_sanitizeState(calcState), calcState', MaxEntry)
        /\ Followed(calcState', MaxExp)

\* reduce(state, action) is called with no action: it raises, and the caller
\* keeps the state it supplied.
FailedCall ==
    \E a \in AbsentActions :
        /\ reduce(calcState, a) = TypeError
        /\ UNCHANGED calcState

NextSupplied == Call \/ FailedCall

SpecSupplied == InitSupplied /\ [][NextSupplied]_vars

\* A state of the engine: all five fields, a display that is a non-empty
\* string, a number or null for accumulator, an operator token or null, a
\* boolean, an error kind or null.
IsState(s) ==
    /\ DOMAIN s = Fields
    /\ TypeofString(s.display)
    /\ Len(s.display) > 0
    /\ s.accumulator.k \in {"null", "nan", "inf", "fin", "unmodelled"}
    /\ s.operator \in OperatorTokens \cup {"null"}
    /\ s.awaitingNext \in BOOLEAN
    /\ s.error \in {"null", "DIV_BY_ZERO"}

\* The state supplied with its missing fields taken from initialState() and
\* display "0" unless it is a non-empty string.
Filled(s) ==
    [display |-> IF "display" \notin DOMAIN s THEN <<"0">>
                 ELSE IF s.display \in BadDisplays THEN <<"0">>
                 ELSE s.display,
     accumulator |-> IF "accumulator" \in DOMAIN s THEN s.accumulator
                     ELSE Null,
     operator |-> IF "operator" \in DOMAIN s THEN s.operator ELSE "null",
     awaitingNext |-> IF "awaitingNext" \in DOMAIN s THEN s.awaitingNext
                      ELSE FALSE,
     error |-> IF "error" \in DOMAIN s THEN s.error ELSE "null"]

\* reduce answers every action that is an object: it returns a state, the one
\* it returns for the supplied state with its missing fields filled from
\* initialState() and a display that is no non-empty string replaced by "0";
\* for a malformed action that is the filled state itself.
ActionObjectsAnswered ==
    /\ \A a \in MalformedActions :
           /\ IsState(reduce(calcState, a))
           /\ reduce(calcState, a) = Filled(calcState)
    /\ \A a \in WellFormedActions :
           /\ IsState(reduce(calcState, a))
           /\ reduce(calcState, a) = reduce(Filled(calcState), a)

\* C15: for every state supplied (none, a partial one, one whose display is no
\* non-empty string) and every action, an absent one as well, reduce returns a
\* state and raises nothing.
C15_NeverFails ==
    /\ ActionObjectsAnswered
    /\ \A a \in AbsentActions : IsState(reduce(calcState, a))

-----------------------------------------------------------------------------
\* C16: an OP pressed with ÷ pending and a typed operand whose value is zero
\* gives display "Error" and error "DIV_BY_ZERO" and keeps accumulator,
\* operator and awaitingNext as they were, whereas EQUALS in the same state
\* clears accumulator and operator.
C16_ChainedDivisionByZero ==
    /\ Chaining
    /\ calcState.operator = "U+00F7"
    /\ IsZero(_parseDisplay(calcState.display))
    => /\ \A a \in OperatorActions :
              /\ reduce(calcState, a) =
                     [calcState EXCEPT !.display = ErrorText,
                                       !.error = "DIV_BY_ZERO"]
              /\ reduce(calcState, a).accumulator # Null
              /\ reduce(calcState, a).operator = "U+00F7"
              /\ ~reduce(calcState, a).awaitingNext
       /\ AfterEquals.accumulator = Null
       /\ AfterEquals.operator = "null"
       /\ AfterEquals.error = "DIV_BY_ZERO"

\* The state after 10 ÷ 0 and an OP: the error is set and 10 ÷ still pending.
C16_Witness ==
    /\ calcState.error = "DIV_BY_ZERO"
    /\ calcState.display = ErrorText
    /\ calcState.accumulator = Fin(FALSE, 1, 1)
    /\ calcState.operator = "U+00F7"
    /\ ~calcState.awaitingNext

-----------------------------------------------------------------------------
\* The display is a numeral of digits only, of value below 40000.
DigitsOnly(s) ==
    /\ Len(s) > 0
    /\ Len(s) <= 4
    /\ \A i \in 1..Len(s) : s[i] \in DigitChars

\* C17: without error and with no accumulator pending (at the start, or after
\* EQUALS), an OP with an operator token sets accumulator to the value of the
\* display, operator to the token and awaitingNext to true, and leaves display
\* and error as they are.  The value of a display of digits is the integer
\* they write; that of "Error" is 0.
C17_FirstOperator ==
    ~Truthy(calcState.error) /\ calcState.accumulator = Null =>
        \A a \in OperatorActions :
            \A after \in {reduce(calcState, a)} :
                /\ after =
                       [calcState EXCEPT
                           !.accumulator = _parseDisplay(calcState.display),
                           !.operator = String(a.payload),
                           !.awaitingNext = TRUE]
                /\ after.display = calcState.display
                /\ after.error = calcState.error
                /\ after.accumulator # Null
                /\ DigitsOnly(calcState.display) =>
                       after.accumulator \in
                           {UnmodelledNonZero,
                            Fin(FALSE, CharsToNat(calcState.display), 0)}
                /\ Unsigned(calcState.display) = ErrorText =>
                       after.accumulator = Zero(FALSE)

\* + pressed on the result of 2 + 2 = or 2 × 2 = (4 is not among the keys).
C17_Witness ==
    /\ calcState.display = <<"4">>
    /\ calcState.accumulator = Fin(FALSE, 4, 0)
    /\ calcState.operator = "+"
    /\ calcState.awaitingNext

-----------------------------------------------------------------------------
\* The display does not begin, after its sign, with a 0 that a digit follows.
NoLeadingZero(s) ==
    \A body \in {Unsigned(s)} :
        ~(Len(body) >= 2 /\ body[1] = "0" /\ body[2] \in DigitChars)

\* C18: without error, DIGIT d makes the display d and clears awaitingNext
\* when awaitingNext is true; else makes the display d when it is "0"; else
\* changes nothing when the display has 18 characters; else appends d.  After
\* it awaitingNext is false, the other fields are as before, and no display
\* keeps a leading zero.
C18_Digit ==
    /\ NoLeadingZero(calcState.display)
    /\ ~Truthy(calcState.error) =>
           \A a \in DigitActions :
               \A d \in {a.payload.v} :
                   \A after \in {reduce(calcState, a)} :
                       /\ after =
                              IF calcState.awaitingNext
                              THEN [calcState EXCEPT !.display = <<d>>,
                                                     !.awaitingNext = FALSE]
                              ELSE IF calcState.display = <<"0">>
                                   THEN [calcState EXCEPT !.display = <<d>>]
                              ELSE IF Len(calcState.display) = 18
                                   THEN calcState
                              ELSE [calcState EXCEPT
                                       !.display = Append(calcState.display, d)]
                       /\ ~after.awaitingNext
                       /\ NoLeadingZero(after.display)

\* The operand 10 typed after 1 ×: the 1 replaced the display, the 0 was
\* appended to it.
C18_Witness ==
    /\ calcState.display = <<"1", "0">>
    /\ ~calcState.awaitingNext
    /\ calcState.accumulator = Fin(FALSE, 1, 0)
    /\ calcState.operator = "U+00D7"
    /\ ~Truthy(calcState.error)

-----------------------------------------------------------------------------
\* C19: without error, DOT makes the display "0." and clears awaitingNext when
\* awaitingNext is true; else changes nothing when the display contains a '.'
\* or has 18 characters; else appends '.'.  No other field changes, and in
\* every reachable state the display contains at most one '.'.
C19_Dot ==
    /\ Count(calcState.display, ".") <= 1
    /\ ~Truthy(calcState.error) =>
           \A after \in {reduce(calcState, DotAction)} :
               /\ after =
                      IF calcState.awaitingNext
                      THEN [calcState EXCEPT !.display = <<"0", ".">>,
                                             !.awaitingNext = FALSE]
                      ELSE IF Count(calcState.display, ".") > 0
                           THEN calcState
                      ELSE IF Len(calcState.display) = 18 THEN calcState
                      ELSE [calcState EXCEPT
                               !.display = Append(calcState.display, ".")]
               /\ Count(after.display, ".") <= 1
               /\ reduce(after, DotAction) = after

\* DOT pressed right after 1 ×: a fresh operand "0." is being typed.
C19_Witness ==
    /\ calcState.display = <<"0", ".">>
    /\ ~calcState.awaitingNext
    /\ calcState.accumulator = Fin(FALSE, 1, 0)
    /\ calcState.operator = "U+00D7"
    /\ ~Truthy(calcState.error)

-----------------------------------------------------------------------------
\* The pending operation and the error of a state.
PendingOperation(s) == <<s.accumulator, s.operator, s.error>>

\* C20: in every reachable state DIGIT, DOT and TOGGLE_SIGN leave accumulator,
\* operator and error as they are, and an action that changes accumulator or
\* operator is an OP, an EQUALS or a CLEAR.
C20_EntryKeepsPending ==
    /\ \A a \in DigitActions \cup {DotAction, ToggleSignAction} :
           PendingOperation(reduce(calcState, a)) = PendingOperation(calcState)
    /\ \A a \in WellFormedActions \cup MalformedActions :
           \A after \in {reduce(calcState, a)} :
               \/ /\ after.accumulator = calcState.accumulator
                  /\ after.operator = calcState.operator
               \/ a.type \in {"OP", "EQUALS", "CLEAR"}

\* 2 + is pending, and the operand 2 typed after it has been negated.
C20_Witness ==
    /\ calcState.display = <<"-", "2">>
    /\ ~calcState.awaitingNext
    /\ calcState.accumulator = Fin(FALSE, 2, 0)
    /\ calcState.operator = "+"

=============================================================================
